---- MODULE Spec2Model ----
(***************************************************************************)
(* The transfer Actor of safe-transfers (src/src/actor.rs): the commands   *)
(* transfer, receive, register and synch, which are pure, and apply,       *)
(* which folds the event a command returned into the actor.                *)
(*                                                                         *)
(* Signatures are symbolic: a signature is the key that made it and the    *)
(* data it was made over, and it verifies under a key over some data       *)
(* exactly when both agree.  NoKey is the key of nobody: a signature of    *)
(* NoKey verifies under no key of a group (the result of combining shares  *)
(* that do not belong together).                                           *)
(***************************************************************************)
EXTENDS Integers, Sequences, FiniteSets, TLC

VARIABLES account, next_debit_version, accumulating_validations, replicas,
          initiated, event_log

vars == <<account, next_debit_version, accumulating_validations, replicas,
          initiated, event_log>>

(***************************************************************************)
(* Bounds of the model.                                                    *)
(***************************************************************************)
\* debit counters of the transfers handed to the actor: 0..MaxCounter
MaxCounter == 1
\* validations the accumulator holds at most, over all groups
MaxAcc == 2
\* events an event log holds at most
MaxLog == 3

\* the account of this actor (Actor.id) and the one other account
Self == "a"
Peer == "b"
AccountIds == {Self, Peer}

Counters == 0..MaxCounter
\* amounts of the transfers handed to the actor
Amounts == {1, 2}
Indices == {0, 1}

\* The replica groups (PublicKeySet values) the actor hears from.  Group g
\* has threshold g - 1; BTreeMap orders the groups by their number.
Groups == {1, 2}
\* a group key the ReplicaValidator does not accept
Rogue == Cardinality(Groups) + 1
\* the key of nobody
NoKey == Cardinality(Groups) + 2

threshold(group) == group - 1

\* ReplicaValidator::is_valid, injected by the upper layer
is_valid(replica_group) == replica_group \in Groups

(***************************************************************************)
(* Keys and signatures.                                                    *)
(***************************************************************************)
Dot(actor, counter) == [actor |-> actor, counter |-> counter]

Signed(key, data) == [signer |-> key, data |-> data]

Verifies(key, sig, data) == sig.signer = key /\ sig.data = data

\* a share of replica `index` of `group` over `data`
Share(group, index, data) == [group |-> group, index |-> index, data |-> data]

\* public_key_share(index).verify(share, data)
VerifiesShare(group, index, share, data) ==
    /\ share.group = group
    /\ share.index = index
    /\ share.data = data

(***************************************************************************)
(* Account ledger.                                                         *)
(***************************************************************************)
RECURSIVE SumAmounts(_)
SumAmounts(transfers) ==
    IF transfers = <<>> THEN 0
    ELSE Head(transfers).amount + SumAmounts(Tail(transfers))

AccountNew(id) == [id |-> id, credits |-> <<>>, debits |-> <<>>]

balance(acc) == SumAmounts(acc.credits) - SumAmounts(acc.debits)

next_debit(acc) == Len(acc.debits)

contains(acc, dot) ==
    \/ \E i \in 1..Len(acc.credits) : acc.credits[i].id = dot
    \/ \E i \in 1..Len(acc.debits) : acc.debits[i].id = dot

\* Ok(bool), or Err when the transfer does not debit the owner
is_sequential(acc, t) ==
    IF t.id.actor # acc.id
    THEN [kind |-> "Err", error |-> "InvalidOperation"]
    ELSE [kind |-> "Ok", value |-> (t.id.counter = next_debit(acc))]

\* the slice from index to the end, empty when index is not below the length
credits_since(acc, index) == SubSeq(acc.credits, index + 1, Len(acc.credits))

debits_since(acc, index) == SubSeq(acc.debits, index + 1, Len(acc.debits))

append(acc, t) ==
    IF t.to = acc.id /\ t.id.actor # acc.id
    THEN [acc EXCEPT !.credits = Append(@, t)]
    ELSE [acc EXCEPT !.debits = Append(@, t)]

(***************************************************************************)
(* Results of the commands.  An Option is a sequence of length 0 or 1.     *)
(***************************************************************************)
Ok(e) == [kind |-> "Ok", error |-> "", event |-> <<e>>]

Err(msg) == [kind |-> "Err", error |-> msg, event |-> <<>>]

\* the command did not return: an expect() failed.  The actor, borrowed by
\* the command, is left as it was.
Panic(msg) == [kind |-> "Panic", error |-> msg, event |-> <<>>]

(***************************************************************************)
(* Private methods of the Actor.                                           *)
(***************************************************************************)
sign(transfer) == Signed(Self, transfer)

verify_is_our_transfer(signed_transfer) ==
    Verifies(Self, signed_transfer.actor_signature, signed_transfer.transfer)

verify_share(item, replica_signature, replica_set) ==
    VerifiesShare(replica_set, replica_signature.index, replica_signature.share, item)

\* verify that looks at the share of the replica only
verify_share_only(event) ==
    verify_share(event.signed_transfer, event.replica_signature, event.replicas)

verify(event) ==
    /\ verify_is_our_transfer(event.signed_transfer)
    /\ verify_share(event.signed_transfer, event.replica_signature, event.replicas)

\* verify_debit_proof against the key set the proof names, not the replicas
\* of this actor
verify_debit_proof_by_key(proof) ==
    /\ verify_is_our_transfer(proof.signed_transfer)
    /\ Verifies(proof.replica_key, proof.debiting_replicas_sig, proof.signed_transfer)

verify_debit_proof(proof) ==
    /\ verify_is_our_transfer(proof.signed_transfer)
    /\ Verifies(replicas, proof.debiting_replicas_sig, proof.signed_transfer)

\* verify_credit_proof that does not ask the ReplicaValidator
verify_credit_proof_any_group(credit) ==
    Verifies(credit.debiting_replicas, credit.debit_proof.debiting_replicas_sig,
             credit.debit_proof.signed_transfer)

\* verify_credit_proof against the replicas of this actor, not the debiting ones
verify_credit_proof_own(credit) ==
    /\ is_valid(credit.debiting_replicas)
    /\ Verifies(replicas, credit.debit_proof.debiting_replicas_sig,
                credit.debit_proof.signed_transfer)

verify_credit_proof(credit) ==
    /\ is_valid(credit.debiting_replicas)
    /\ Verifies(credit.debiting_replicas, credit.debit_proof.debiting_replicas_sig,
                credit.debit_proof.signed_transfer)

(***************************************************************************)
(* Step 1: transfer.                                                       *)
(***************************************************************************)
\* transfer without the test that the pending debit has been completed
transfer_unsequenced(amount, to) ==
    IF to = Self
    THEN Err("Sender and recipient are the same")
    ELSE IF amount > balance(account)
    THEN Err("InsufficientBalance")
    ELSE
      LET t == [id |-> Dot(Self, next_debit(account)), to |-> to, amount |-> amount] IN
      Ok([type |-> "TransferInitiated",
          signed_transfer |-> [transfer |-> t, actor_signature |-> sign(t)]])

\* transfer that tests the balance before the pending debit
transfer_balance_first(amount, to) ==
    IF to = Self
    THEN Err("Sender and recipient are the same")
    ELSE IF amount > balance(account)
    THEN Err("InsufficientBalance")
    ELSE IF next_debit_version # next_debit(account)
    THEN Err("Current pending debit has not been completed")
    ELSE
      LET t == [id |-> Dot(Self, next_debit(account)), to |-> to, amount |-> amount] IN
      Ok([type |-> "TransferInitiated",
          signed_transfer |-> [transfer |-> t, actor_signature |-> sign(t)]])

transfer(amount, to) ==
    IF to = Self
    THEN Err("Sender and recipient are the same")
    ELSE
      LET id == Dot(Self, next_debit(account)) IN
      IF next_debit_version # next_debit(account)
      THEN Err("Current pending debit has not been completed")
      ELSE IF next_debit_version # id.counter
      THEN Err("Debit already proposed or out of order")
      ELSE IF amount > balance(account)
      THEN Err("InsufficientBalance")
      ELSE
        LET t == [id |-> id, to |-> to, amount |-> amount] IN
        Ok([type |-> "TransferInitiated",
            signed_transfer |-> [transfer |-> t, actor_signature |-> sign(t)]])

(***************************************************************************)
(* Step 2: receive.                                                        *)
(***************************************************************************)
\* max_by_key(|c| c.1.len()) over the BTreeMap: the last of the largest groups
largest_group ==
    CHOOSE g \in DOMAIN accumulating_validations :
        \A h \in DOMAIN accumulating_validations :
            \/ Cardinality(accumulating_validations[h])
                   < Cardinality(accumulating_validations[g])
            \/ /\ Cardinality(accumulating_validations[h])
                      = Cardinality(accumulating_validations[g])
               /\ h <= g

\* The maps index -> share that collecting the accumulated shares, then the
\* new one, into a BTreeMap can give: a later share replaces an earlier one of
\* the same index, and the HashSet hands out the accumulated ones in any order.
sig_shares(accumulated, last_sig) ==
    LET idx == {v.replica_signature.index : v \in accumulated} \cup {last_sig.index}
        shares == {v.replica_signature.share : v \in accumulated} \cup {last_sig.share}
    IN  { m \in [idx -> shares] :
            \A i \in idx :
                IF i = last_sig.index
                THEN m[i] = last_sig.share
                ELSE \E v \in accumulated :
                        /\ v.replica_signature.index = i
                        /\ m[i] = v.replica_signature.share }

\* PublicKeySet::combine_signatures: interpolates the threshold + 1 shares of
\* the lowest indices; the result is the group's signature when these are
\* shares of the group over one and the same data.
combine_signatures(group, shares) ==
    IF Cardinality(DOMAIN shares) <= threshold(group)
    THEN [kind |-> "Err", sig |-> Signed(NoKey, <<>>)]
    ELSE
      LET used == {i \in DOMAIN shares :
                      Cardinality({j \in DOMAIN shares : j < i}) <= threshold(group)}
          first == CHOOSE i \in used : \A j \in used : i <= j
          data == shares[first].data
      IN  IF \A i \in used : VerifiesShare(group, i, shares[i], data)
          THEN [kind |-> "Ok", sig |-> Signed(group, data)]
          ELSE [kind |-> "Ok", sig |-> Signed(NoKey, data)]

ValidationReceived(validation, proof) ==
    [type |-> "TransferValidationReceived", validation |-> validation, proof |-> proof]

\* aggregate without the verification of the combined signature
aggregate_unverified(validation, group, shares) ==
    LET combined == combine_signatures(group, shares) IN
    IF combined.kind = "Err"
    THEN Panic("not enough shares")
    ELSE Ok(ValidationReceived(validation,
                << [signed_transfer |-> validation.signed_transfer,
                    debiting_replicas_sig |-> combined.sig,
                    replica_key |-> group] >>))

\* aggregate that returns an error when the combined signature does not verify
aggregate_strict(validation, group, shares) ==
    LET signed_transfer == validation.signed_transfer
        combined == combine_signatures(group, shares)
    IN  IF combined.kind = "Err"
        THEN Panic("not enough shares")
        ELSE IF Verifies(group, combined.sig, signed_transfer)
        THEN Ok(ValidationReceived(validation,
                    << [signed_transfer |-> signed_transfer,
                        debiting_replicas_sig |-> combined.sig,
                        replica_key |-> group] >>))
        ELSE Err("InvalidSignature")

\* what receive returns once quorum holds, for one outcome of collecting the shares
aggregate(validation, group, shares) ==
    LET signed_transfer == validation.signed_transfer
        combined == combine_signatures(group, shares)
    IN  IF combined.kind = "Err"
        THEN Panic("not enough shares")
        ELSE IF Verifies(group, combined.sig, signed_transfer)
        THEN Ok(ValidationReceived(validation,
                    << [signed_transfer |-> signed_transfer,
                        debiting_replicas_sig |-> combined.sig,
                        replica_key |-> group] >>))
        ELSE Ok(ValidationReceived(validation, <<>>))

\* receive without the test for a validation already received
receive_again(validation) ==
    LET signed_transfer == validation.signed_transfer IN
    IF ~verify(validation)
    THEN {Err("InvalidSignature")}
    ELSE IF Self # signed_transfer.transfer.id.actor
    THEN {Err("Validation not intended for this actor")}
    ELSE IF next_debit_version # signed_transfer.transfer.id.counter
    THEN {Err("Out of order validation")}
    ELSE IF DOMAIN accumulating_validations = {}
    THEN {Ok(ValidationReceived(validation, <<>>))}
    ELSE
      LET group == largest_group
          accumulated == accumulating_validations[group]
          quorum == /\ Cardinality(accumulated) >= threshold(group)
                    /\ group = validation.replicas
      IN  IF quorum
          THEN {aggregate(validation, group, m) :
                    m \in sig_shares(accumulated, validation.replica_signature)}
          ELSE {Ok(ValidationReceived(validation, <<>>))}

\* the set of results receive can give
receive(validation) ==
    LET signed_transfer == validation.signed_transfer IN
    IF ~verify(validation)
    THEN {Err("InvalidSignature")}
    ELSE IF Self # signed_transfer.transfer.id.actor
    THEN {Err("Validation not intended for this actor")}
    ELSE IF next_debit_version # signed_transfer.transfer.id.counter
    THEN {Err("Out of order validation")}
    ELSE IF \E g \in DOMAIN accumulating_validations :
                validation \in accumulating_validations[g]
    THEN {Err("Already received validation")}
    ELSE IF DOMAIN accumulating_validations = {}
    THEN {Ok(ValidationReceived(validation, <<>>))}
    ELSE
      LET group == largest_group
          accumulated == accumulating_validations[group]
          quorum == /\ Cardinality(accumulated) >= threshold(group)
                    /\ group = validation.replicas
      IN  IF quorum
          THEN {aggregate(validation, group, m) :
                    m \in sig_shares(accumulated, validation.replica_signature)}
          ELSE {Ok(ValidationReceived(validation, <<>>))}

(***************************************************************************)
(* Step 3: register.                                                       *)
(***************************************************************************)
register(debit_proof) ==
    IF ~verify_debit_proof(debit_proof)
    THEN Err("InvalidSignature")
    ELSE
      LET sequential == is_sequential(account, debit_proof.signed_transfer.transfer) IN
      IF sequential.kind = "Ok"
      THEN IF sequential.value
           THEN Ok([type |-> "TransferRegistrationSent", debit_proof |-> debit_proof])
           ELSE Err("Non-sequential opertaion")
      ELSE Err("InvalidOperation")

(***************************************************************************)
(* Synchronisation: synch.                                                 *)
(***************************************************************************)
\* the id of a ReplicaEvent, a ReceivedCredit or a DebitAgreementProof
EventDot(e) == e.debit_proof.signed_transfer.transfer.id

\* Itertools::unique_by(|e| e.id()): the first event of every dot
RECURSIVE unique_by_id(_, _)
unique_by_id(events, seen) ==
    IF events = <<>> THEN <<>>
    ELSE IF EventDot(Head(events)) \in seen
    THEN unique_by_id(Tail(events), seen)
    ELSE <<Head(events)>>
            \o unique_by_id(Tail(events), seen \cup {EventDot(Head(events))})

IsPropagated(e) == e.type = "TransferPropagated"

IsRegistered(e) == e.type = "TransferRegistered"

ReceivedCredit(e) ==
    [debit_proof |-> e.debit_proof, debiting_replicas |-> e.debiting_replicas]

\* .map(|e| ReceivedCredit { .. }) over the events
ReceivedCredits(events) == [i \in 1..Len(events) |-> ReceivedCredit(events[i])]

\* the filters of validate_credits without the one on credits the account holds
CreditAccepted_again(credit) ==
    /\ verify_credit_proof(credit)
    /\ Self = credit.debit_proof.signed_transfer.transfer.to

CreditAccepted(credit) ==
    /\ verify_credit_proof(credit)
    /\ Self = credit.debit_proof.signed_transfer.transfer.to
    /\ ~contains(account, EventDot(credit))

validate_credits(events) ==
    SelectSeq(ReceivedCredits(unique_by_id(SelectSeq(events, IsPropagated), {})),
              CreditAccepted)

\* .map(|e| &e.debit_proof) over the events
DebitProofs(events) == [i \in 1..Len(events) |-> events[i].debit_proof]

DebitCandidate(debit) ==
    /\ Self = debit.signed_transfer.transfer.id.actor
    /\ debit.signed_transfer.transfer.id.counter >= next_debit(account)
    /\ verify_debit_proof(debit)

\* validate_debits without the sort: the debits in the order of the batch
unsorted(debits) == debits

\* sort_by_key(|t| t.id().counter), a stable sort
RECURSIVE sort_by_counter(_)
sort_by_counter(debits) ==
    IF debits = <<>> THEN <<>>
    ELSE
      LET Counter(i) == debits[i].signed_transfer.transfer.id.counter
          least == CHOOSE i \in 1..Len(debits) :
                      \A j \in 1..Len(debits) :
                          Counter(i) < Counter(j) \/ (Counter(i) = Counter(j) /\ i <= j)
          rest == [k \in 1..(Len(debits) - 1) |->
                      IF k < least THEN debits[k] ELSE debits[k + 1]]
      IN  <<debits[least]>> \o sort_by_counter(rest)

\* the loop of validate_debits without the break at an unexpected version
dense_prefix_gaps(debits, iter) == debits

\* the loop of validate_debits: the debits up to the first unexpected version
RECURSIVE dense_prefix(_, _)
dense_prefix(debits, iter) ==
    IF debits = <<>> THEN <<>>
    ELSE IF Head(debits).signed_transfer.transfer.id.counter
                # iter + next_debit(account)
    THEN <<>>
    ELSE <<Head(debits)>> \o dense_prefix(Tail(debits), iter + 1)

validate_debits(events) ==
    dense_prefix(
        sort_by_counter(
            SelectSeq(DebitProofs(unique_by_id(SelectSeq(events, IsRegistered), {})),
                      DebitCandidate)),
        0)

\* synch that wants credits and debits both
synch_both(events) ==
    LET credits == validate_credits(events)
        debits == validate_debits(events)
    IN  IF Len(credits) > 0 /\ Len(debits) > 0
        THEN Ok([type |-> "TransfersSynched", credits |-> credits, debits |-> debits])
        ELSE Err("No credits or debits found to sync to actor")

synch(events) ==
    LET credits == validate_credits(events)
        debits == validate_debits(events)
    IN  IF Len(credits) > 0 \/ Len(debits) > 0
        THEN Ok([type |-> "TransfersSynched", credits |-> credits, debits |-> debits])
        ELSE Err("No credits or debits found to sync to actor")

(***************************************************************************)
(* Mutation: apply.  An Actor value is the record of the fields of the     *)
(* struct that apply writes; self is the actor at hand.                    *)
(***************************************************************************)
self ==
    [account |-> account,
     next_debit_version |-> next_debit_version,
     accumulating_validations |-> accumulating_validations,
     replicas |-> replicas]

\* the empty BTreeMap
NoValidations == [g \in {} |-> {}]

\* Actor::new with the replicas given
new(replica_set) ==
    [account |-> AccountNew(Self),
     next_debit_version |-> 0,
     accumulating_validations |-> NoValidations,
     replicas |-> replica_set]

\* Actor::from_snapshot that drops the account it is given
from_snapshot_empty(acc, replica_set) == new(replica_set)

\* Actor::from_snapshot with the account and the replicas given
from_snapshot(acc, replica_set) ==
    [account |-> acc,
     next_debit_version |-> 0,
     accumulating_validations |-> NoValidations,
     replicas |-> replica_set]

RECURSIVE append_all(_, _)
append_all(acc, proofs) ==
    IF proofs = <<>> THEN acc
    ELSE append_all(append(acc, Head(proofs).debit_proof.signed_transfer.transfer),
                    Tail(proofs))

RECURSIVE append_debits(_, _)
append_debits(acc, proofs) ==
    IF proofs = <<>> THEN acc
    ELSE append_debits(append(acc, Head(proofs).signed_transfer.transfer), Tail(proofs))

\* an accumulator that holds the last validation of a group only
replaced(accumulating, validation) ==
    [g \in DOMAIN accumulating \cup {validation.replicas} |->
        IF g = validation.replicas THEN {validation} ELSE accumulating[g]]

\* the accumulator with the validation inserted in the set of its group
inserted(accumulating, validation) ==
    LET key == validation.replicas IN
    IF key \in DOMAIN accumulating
    THEN [accumulating EXCEPT ![key] = @ \cup {validation}]
    ELSE [g \in DOMAIN accumulating \cup {key} |->
              IF g = key THEN {validation} ELSE accumulating[g]]

\* apply of TransferInitiated that sets next_debit_version to the counter of
\* the debit, not to the one after it
apply_TransferInitiated_same(actor, e) ==
    [actor EXCEPT !.next_debit_version = e.signed_transfer.transfer.id.counter]

apply_TransferInitiated(actor, e) ==
    [actor EXCEPT !.next_debit_version = e.signed_transfer.transfer.id.counter + 1]

\* apply of TransferValidationReceived that adopts the replicas of the
\* validation whether or not the event has a proof
apply_TransferValidationReceived_adopting(actor, e) ==
    [actor EXCEPT
        !.replicas = e.validation.replicas,
        !.accumulating_validations = inserted(@, e.validation)]

apply_TransferValidationReceived(actor, e) ==
    [actor EXCEPT
        !.replicas = IF e.proof # <<>> THEN e.validation.replicas ELSE @,
        !.accumulating_validations = inserted(@, e.validation)]

\* apply of TransferRegistrationSent that leaves the accumulator as it is
apply_TransferRegistrationSent_keeps(actor, e) ==
    [actor EXCEPT !.account = append(@, e.debit_proof.signed_transfer.transfer)]

apply_TransferRegistrationSent(actor, e) ==
    [actor EXCEPT
        !.account = append(@, e.debit_proof.signed_transfer.transfer),
        !.accumulating_validations = NoValidations]

\* apply of TransfersSynched that sets next_debit_version whether or not the
\* event has a debit
apply_TransfersSynched_always(actor, e) ==
    LET synched == append_debits(append_all(actor.account, e.credits), e.debits)
    IN  [actor EXCEPT
            !.account = synched,
            !.next_debit_version = next_debit(synched) - 1]

apply_TransfersSynched(actor, e) ==
    LET any_debits == Len(e.debits) > 0
        synched == append_debits(append_all(actor.account, e.credits), e.debits)
    IN  [actor EXCEPT
            !.account = synched,
            !.next_debit_version = IF any_debits THEN next_debit(synched) - 1 ELSE @]

\* the actor after apply(event)
applied(actor, event) ==
    CASE event.type = "TransferInitiated" -> apply_TransferInitiated(actor, event)
      [] event.type = "TransferValidationReceived" ->
            apply_TransferValidationReceived(actor, event)
      [] event.type = "TransferRegistrationSent" ->
            apply_TransferRegistrationSent(actor, event)
      [] event.type = "TransfersSynched" -> apply_TransfersSynched(actor, event)

\* History: the signed transfers of the TransferInitiated events applied so
\* far for which no TransferRegistrationSent of the same dot has been applied
\* since.
initiated_after(event) ==
    CASE event.type = "TransferInitiated" -> initiated \cup {event.signed_transfer}
      [] event.type = "TransferRegistrationSent" ->
            {st \in initiated : st.transfer.id # EventDot(event)}
      [] OTHER -> initiated

\* The event log is kept by the layer above the actor, which may or may not
\* keep one: the replicas the actor was created with and the events applied.
NoLog == [kept |-> FALSE, replicas |-> NoKey, events |-> <<>>]

logged(event) ==
    IF event_log.kept
    THEN [event_log EXCEPT !.events = Append(@, event)]
    ELSE event_log

\* apply(event) on the actor at hand
apply(event) ==
    LET after == applied(self, event) IN
    /\ Len(event_log.events) < MaxLog
    /\ account' = after.account
    /\ next_debit_version' = after.next_debit_version
    /\ accumulating_validations' = after.accumulating_validations
    /\ replicas' = after.replicas
    /\ initiated' = initiated_after(event)
    /\ event_log' = logged(event)

(***************************************************************************)
(* What the callers hand to the commands.                                  *)
(***************************************************************************)
Other(actor) == IF actor = Self THEN Peer ELSE Self

\* a transfer of amount from actor's counter c, signed by actor;
\* to # id.actor holds of every Transfer
Signs(actor, c, amount) ==
    LET t == [id |-> Dot(actor, c), to |-> Other(actor), amount |-> amount]
    IN  [transfer |-> t, actor_signature |-> Signed(actor, t)]

\* a transfer from actor signed by the other account's key
Forged(actor, c, amount) ==
    LET t == Signs(actor, c, amount).transfer
    IN  [transfer |-> t, actor_signature |-> Signed(Other(actor), t)]

\* the signed transfers that reach this actor: its own, at every counter and
\* amount; one of its own and one of the peer's under the wrong key; one of
\* the peer's under the peer's key
SignedTransferInputs ==
    {Signs(Self, c, amount) : c \in Counters, amount \in Amounts}
    \cup {Forged(Self, 0, 1), Forged(Peer, 0, 1), Signs(Peer, 0, 1)}

\* TransferValidated events: the share is made by replica index of group signer
ValidationInputs ==
    {[signed_transfer |-> st,
      replica_signature |-> [index |-> i, share |-> Share(signer, i, st)],
      replicas |-> g] :
        st \in SignedTransferInputs, i \in Indices, signer \in Groups, g \in Groups}

\* DebitAgreementProofs: the aggregated signature is made by key signer
ProofInputs ==
    {[signed_transfer |-> st,
      debiting_replicas_sig |-> Signed(signer, st),
      replica_key |-> g] :
        st \in SignedTransferInputs, signer \in Groups \cup {NoKey}, g \in Groups}

Proof(st, signer, g) ==
    [signed_transfer |-> st, debiting_replicas_sig |-> Signed(signer, st), replica_key |-> g]

Registered(proof) == [type |-> "TransferRegistered", debit_proof |-> proof]

Propagated(proof, key) ==
    [type |-> "TransferPropagated", debit_proof |-> proof, debiting_replicas |-> key]

\* ReplicaEvents of the debits of this actor: registered at the replicas it
\* trusts, and one whose aggregated signature is of nobody
RegisteredInputs ==
    {Registered(Proof(Signs(Self, c, 1), replicas, replicas)) : c \in Counters}
    \cup {Registered(Proof(Signs(Self, 0, 1), NoKey, replicas))}

\* ReplicaEvents of credits: two credits to this actor agreed at group 1, and
\* one agreed at a group the validator rejects
PropagatedInputs ==
    {Propagated(Proof(Signs(Peer, c, 2), 1, 1), 1) : c \in {0}}
    \cup {Propagated(Proof(Signs(Peer, 0, 2), Rogue, Rogue), Rogue)}

ReplicaEvents == RegisteredInputs \cup PropagatedInputs

\* the batches handed to synch: up to two events, in either order
Batches ==
    {<<>>} \cup {<<e>> : e \in ReplicaEvents}
           \cup {<<e, f>> : e \in ReplicaEvents, f \in ReplicaEvents}

AccSize ==
    Cardinality(UNION {accumulating_validations[g] : g \in DOMAIN accumulating_validations})

(***************************************************************************)
(* The actor and its callers.  A command is called on the current state    *)
(* and the event it returns is applied; a command that returns Err, or     *)
(* whose event is dropped, leaves the actor as it is.                      *)
(***************************************************************************)
\* the accounts from_snapshot is given
SnapshotAccounts ==
    LET credit == [id |-> Dot(Peer, 0), to |-> Self, amount |-> 2]
        debit == [id |-> Dot(Self, 0), to |-> Peer, amount |-> 1]
    IN  {append(AccountNew(Self), credit),
         append(append(AccountNew(Self), credit), debit)}

\* the actors new and from_snapshot create
Created ==
    {new(g) : g \in Groups}
    \cup {from_snapshot(acc, g) : acc \in SnapshotAccounts, g \in Groups}

Init ==
    /\ \E actor \in Created :
          /\ account = actor.account
          /\ next_debit_version = actor.next_debit_version
          /\ accumulating_validations = actor.accumulating_validations
          /\ replicas = actor.replicas
    /\ initiated = {}
    /\ event_log = NoLog

\* a transfer that is not pure: it empties the accumulator for the new debit
\* before it returns its event
Transfer_clearing ==
    /\ next_debit(account) <= MaxCounter
    /\ Len(event_log.events) < MaxLog
    /\ \E amount \in Amounts, to \in AccountIds :
          LET r == transfer(amount, to) IN
          /\ r.kind = "Ok"
          /\ LET after == applied([self EXCEPT !.accumulating_validations = NoValidations],
                                  r.event[1])
             IN  /\ account' = after.account
                 /\ next_debit_version' = after.next_debit_version
                 /\ accumulating_validations' = after.accumulating_validations
                 /\ replicas' = after.replicas
          /\ initiated' = initiated_after(r.event[1])
          /\ event_log' = logged(r.event[1])

Transfer ==
    /\ next_debit(account) <= MaxCounter
    /\ \E amount \in Amounts, to \in AccountIds :
          LET r == transfer(amount, to) IN
          /\ r.kind = "Ok"
          /\ apply(r.event[1])

\* a receive that is not pure: it adopts the replicas of the validation
\* before it returns its event
Receive_adopting ==
    /\ AccSize < MaxAcc
    /\ Len(event_log.events) < MaxLog
    /\ \E validation \in ValidationInputs :
          \E r \in receive(validation) :
              /\ r.kind = "Ok"
              /\ LET after == applied([self EXCEPT !.replicas = validation.replicas],
                                      r.event[1])
                 IN  /\ account' = after.account
                     /\ next_debit_version' = after.next_debit_version
                     /\ accumulating_validations' = after.accumulating_validations
                     /\ replicas' = after.replicas
              /\ initiated' = initiated_after(r.event[1])
              /\ event_log' = logged(r.event[1])

Receive ==
    /\ AccSize < MaxAcc
    /\ \E validation \in ValidationInputs :
          \E r \in receive(validation) :
              /\ r.kind = "Ok"
              /\ apply(r.event[1])

Register ==
    /\ \E debit_proof \in ProofInputs :
          LET r == register(debit_proof) IN
          /\ r.kind = "Ok"
          /\ apply(r.event[1])

Synch ==
    /\ \E events \in Batches :
          LET r == synch(events) IN
          /\ r.kind = "Ok"
          /\ apply(r.event[1])

Next == Transfer \/ Receive \/ Register \/ Synch

Spec == Init /\ [][Next]_vars

\* the actors created by new whose events are logged
InitLogged ==
    /\ replicas \in Groups
    /\ account = new(replicas).account
    /\ next_debit_version = new(replicas).next_debit_version
    /\ accumulating_validations = new(replicas).accumulating_validations
    /\ initiated = {}
    /\ event_log = [kept |-> TRUE, replicas |-> replicas, events |-> <<>>]

SpecLogged == InitLogged /\ [][Next]_vars

\* the batches of up to three events of a pool, in every order
BatchesOf(pool) ==
    {<<>>} \cup {<<e>> : e \in pool}
           \cup {<<e, f>> : e \in pool, f \in pool}
           \cup {<<e, f, g>> : e \in pool, f \in pool, g \in pool}

\* a debit of this actor registered at the replicas it trusts
RegisteredDebit(c, amount) == Registered(Proof(Signs(Self, c, amount), replicas, replicas))

\* a credit to this actor agreed at group g and propagated by it
PropagatedCredit(c, amount, g) == Propagated(Proof(Signs(Peer, c, amount), g, g), g)

\* What the replicas send an actor that only synchronises: its next debit,
\* or the next two out of order, of either amount, and credits of either
\* group, alone or along with the debit.
SynchInputs ==
    LET n == next_debit(account)
        debits == {<<RegisteredDebit(n, amount)>> : amount \in Amounts}
                  \cup {<<RegisteredDebit(n + 1, 1), RegisteredDebit(n, 2)>>}
        credits == {<<PropagatedCredit(c, amount, g)>> :
                        c \in {0, 1}, amount \in Amounts, g \in Groups}
    IN  debits \cup credits \cup {c \o d : c \in credits, d \in debits}

\* the actor synchronises with its replicas
SynchReplicas ==
    /\ next_debit(account) <= MaxCounter
    /\ \E events \in SynchInputs :
          LET r == synch(events) IN
          /\ r.kind = "Ok"
          /\ apply(r.event[1])

\* an actor that is created and then only synchronises
SpecSynch == Init /\ [][SynchReplicas]_vars

(***************************************************************************)
(* Vocabulary of the properties.                                           *)
(***************************************************************************)
Accumulated(g) ==
    IF g \in DOMAIN accumulating_validations THEN accumulating_validations[g] ELSE {}

AllAccumulated == UNION {Accumulated(g) : g \in Groups}

CounterOf(v) == v.signed_transfer.transfer.id.counter

\* validations of a transfer of this actor, signed by it, with a share that
\* verifies under the group they name
CorrectValidations ==
    {v \in ValidationInputs :
        verify(v) /\ v.signed_transfer.transfer.id.actor = Self}

\* the validations of the signed transfer st made by the replicas of group g
ValidationsOf(st, g) ==
    {v \in CorrectValidations : v.signed_transfer = st /\ v.replicas = g}

ProofIn(r) == r.event[1].proof

\* no TransferInitiated is waiting for its registration, and transfer's own
\* test for a pending debit agrees
NoDebitInFlight ==
    initiated = {} /\ next_debit_version = next_debit(account)

\* the events of the Ok results among results
EventsOf(results) == {r.event[1] : r \in {x \in results : x.kind = "Ok"}}

\* the events the commands return on the actor at hand
TransferEvents ==
    EventsOf({transfer(amount, to) : amount \in Amounts, to \in AccountIds})

ReceiveEvents == EventsOf(UNION {receive(v) : v \in ValidationInputs})

RegisterEvents == EventsOf({register(p) : p \in ProofInputs})

SynchEvents == EventsOf({synch(b) : b \in Batches})

\* ReplicaEvents of every sort.  Debits of this actor registered at its
\* replicas: the last one applied, the next one and the one after it; the
\* next one under nobody's signature; a debit of the peer.  Credits agreed at
\* an accepted group, one agreed at a rejected group, and a credit to the peer.
ReplicaEventsOfAllSorts ==
    {Registered(Proof(Signs(Self, c, 1), replicas, replicas)) :
        c \in {next_debit(account) - 1, next_debit(account), next_debit(account) + 1}
               \cap Nat}
    \cup {Registered(Proof(Signs(Self, next_debit(account), 1), NoKey, replicas)),
          Registered(Proof(Signs(Peer, 0, 1), replicas, replicas))}
    \cup {Propagated(Proof(Signs(Peer, c, 2), 1, 1), 1) : c \in {0, 1}}
    \cup {Propagated(Proof(Signs(Peer, 1, 2), Rogue, Rogue), Rogue),
          Propagated(Proof(Signs(Self, 0, 1), 1, 1), 1)}

BatchesOfAllSorts ==
    {<<>>} \cup {<<e>> : e \in ReplicaEventsOfAllSorts}
           \cup {<<e, f>> : e \in ReplicaEventsOfAllSorts, f \in ReplicaEventsOfAllSorts}

\* an event synch has no use for: a credit that is not to this actor, is
\* already applied or has no valid proof; a debit of another actor, already
\* applied or with no valid proof
Useless(e) ==
    IF IsPropagated(e)
    THEN \/ ~verify_credit_proof(ReceivedCredit(e))
         \/ e.debit_proof.signed_transfer.transfer.to # Self
         \/ contains(account, EventDot(e))
    ELSE \/ ~verify_debit_proof(e.debit_proof)
         \/ EventDot(e).actor # Self
         \/ EventDot(e).counter < next_debit(account)

\* the actor a fresh instance becomes by applying the events in order
RECURSIVE replay(_, _)
replay(actor, events) ==
    IF events = <<>> THEN actor
    ELSE replay(applied(actor, Head(events)), Tail(events))

\* the transfers of the credits and of the debits of a TransfersSynched
CreditTransfers(e) ==
    [i \in 1..Len(e.credits) |-> e.credits[i].debit_proof.signed_transfer.transfer]

DebitTransfers(e) ==
    [i \in 1..Len(e.debits) |-> e.debits[i].signed_transfer.transfer]

\* the account after Account::append of each of the transfers, in order
RECURSIVE append_each(_, _)
append_each(acc, transfers) ==
    IF transfers = <<>> THEN acc
    ELSE append_each(append(acc, Head(transfers)), Tail(transfers))

\* Events for validate_debits.  Debits of this actor registered at its
\* replicas: the last one applied; the next one, in either amount and under
\* nobody's signature (three events of one dot); the two after it.  A debit
\* of the peer, and a propagated event of the dot of the next debit.
DebitEventsOfAllSorts ==
    LET n == next_debit(account) IN
    {RegisteredDebit(c, 1) : c \in {n - 1, n, n + 1, n + 2} \cap Nat}
    \cup {RegisteredDebit(n, 2),
          Registered(Proof(Signs(Self, n, 1), NoKey, replicas)),
          Registered(Proof(Signs(Peer, n, 1), replicas, replicas)),
          Propagated(Proof(Signs(Self, n, 1), replicas, replicas), replicas)}

\* the event at i is the first of its kind in the batch with its dot
FirstOfItsDot(events, i) ==
    \A j \in 1..(i - 1) :
        events[j].type = events[i].type => EventDot(events[j]) # EventDot(events[i])

\* the proofs of the TransferRegistered events of the batch that are first
\* for their dot, debit this actor at a counter not below
\* account.next_debit(), and are signed by it and by its replicas
SurvivingDebits(events) ==
    {events[i].debit_proof :
        i \in {k \in 1..Len(events) :
                  /\ IsRegistered(events[k])
                  /\ FirstOfItsDot(events, k)
                  /\ EventDot(events[k]).actor = Self
                  /\ EventDot(events[k]).counter >= next_debit(account)
                  /\ Verifies(Self, events[k].debit_proof.signed_transfer.actor_signature,
                              events[k].debit_proof.signed_transfer.transfer)
                  /\ Verifies(replicas, events[k].debit_proof.debiting_replicas_sig,
                              events[k].debit_proof.signed_transfer)}}

\* the length of the longest run of counters from account.next_debit() on
\* that the proofs cover without a gap
LongestRun(proofs) ==
    LET covered(n) ==
            \A k \in 0..(n - 1) :
                \E p \in proofs :
                    p.signed_transfer.transfer.id.counter = next_debit(account) + k
    IN  CHOOSE n \in 0..Cardinality(proofs) :
            covered(n) /\ (n < Cardinality(proofs) => ~covered(n + 1))

\* Events for validate_credits.  Credits to this actor: of dot (peer, 0)
\* agreed at group 1 and, with another amount, at group 2; of dot (peer, 1)
\* agreed at group 2, agreed at a group the validator rejects, with a proof
\* signed by another group than the one that propagates it, and with the
\* transfer under the wrong actor key.  A credit to the peer, and a
\* registered event of the dot (peer, 0).
CreditEventsOfAllSorts ==
    {PropagatedCredit(0, 2, 1), PropagatedCredit(0, 1, 2), PropagatedCredit(1, 2, 2),
     PropagatedCredit(1, 2, Rogue),
     Propagated(Proof(Signs(Peer, 1, 2), 2, 1), 1),
     Propagated(Proof(Forged(Peer, 1, 1), 1, 1), 1),
     Propagated(Proof(Signs(Self, next_debit(account), 1), 1, 1), 1),
     Registered(Proof(Signs(Peer, 0, 2), 1, 1))}

\* the places of the batch whose TransferPropagated event is first for its
\* dot, comes from a group the validator accepts with a proof that verifies
\* under that group's key, credits this actor and is not in the account
AcceptedCredits(events) ==
    {i \in 1..Len(events) :
        /\ IsPropagated(events[i])
        /\ FirstOfItsDot(events, i)
        /\ is_valid(events[i].debiting_replicas)
        /\ Verifies(events[i].debiting_replicas,
                    events[i].debit_proof.debiting_replicas_sig,
                    events[i].debit_proof.signed_transfer)
        /\ events[i].debit_proof.signed_transfer.transfer.to = Self
        /\ \A k \in 1..Len(account.credits) : account.credits[k].id # EventDot(events[i])
        /\ \A k \in 1..Len(account.debits) : account.debits[k].id # EventDot(events[i])}

\* the k-th place of a set of places
Place(places, k) == CHOOSE i \in places : Cardinality({j \in places : j <= i}) = k

\* the validations receive lets through to the quorum rule, with quorum:
\* correctly signed, of the counter expected, not held yet, from the largest
\* group, which holds at least threshold validations.  The replica that
\* made the share is one of Indices or the one after them.
AtQuorum ==
    LET made == {[signed_transfer |-> st,
                  replica_signature |-> [index |-> i, share |-> Share(g, i, st)],
                  replicas |-> g] :
                    st \in {Signs(Self, next_debit_version, amount) : amount \in Amounts},
                    i \in Indices \cup {Cardinality(Indices)},
                    g \in DOMAIN accumulating_validations}
    IN  {v \in made \ AllAccumulated :
            /\ v.replicas = largest_group
            /\ Cardinality(Accumulated(v.replicas)) >= threshold(v.replicas)}

\* Validations of every sort: those of ValidationInputs (transfers of this
\* actor and of the peer under the right and the wrong actor key, shares of
\* the group named and of the other group), and validations of transfers of
\* this actor whose share is of another replica than the one named, or over
\* the transfer of the other amount.
ValidationsOfAllSorts ==
    ValidationInputs
    \cup {[signed_transfer |-> Signs(Self, c, 1),
           replica_signature |-> [index |-> 0, share |-> Share(g, 1, Signs(Self, c, 1))],
           replicas |-> g] : c \in Counters, g \in Groups}
    \cup {[signed_transfer |-> Signs(Self, c, 1),
           replica_signature |-> [index |-> 0, share |-> Share(g, 0, Signs(Self, c, 2))],
           replicas |-> g] : c \in Counters, g \in Groups}

\* Events for a synch that is repeated: the next three debits of this actor
\* and the next one under nobody's signature; credits of two dots from
\* accepted groups and one from a rejected group.  Fixed for a step: n is
\* the number of debits of the account before it.
RepeatedEvents(n) ==
    {RegisteredDebit(c, 1) : c \in {n, n + 1, n + 2}}
    \cup {Registered(Proof(Signs(Self, n, 1), NoKey, replicas)),
          PropagatedCredit(0, 2, 1), PropagatedCredit(1, 2, 2),
          PropagatedCredit(1, 2, Rogue)}

\* the dots of the transfers the account holds, credits then debits
AppliedDots(acc) ==
    [i \in 1..Len(acc.credits) |-> acc.credits[i].id]
        \o [i \in 1..Len(acc.debits) |-> acc.debits[i].id]

\* no dot occurs twice among the credits and debits of the account
NoDotTwice(acc) ==
    \A i \in 1..Len(AppliedDots(acc)), j \in 1..Len(AppliedDots(acc)) :
        AppliedDots(acc)[i] = AppliedDots(acc)[j] => i = j

IsValidationReceived(e) == e.type = "TransferValidationReceived"

\* the calls of receive that returned Ok, in the order of arrival: the
\* TransferValidationReceived events of the log
Calls == SelectSeq(event_log.events, IsValidationReceived)

\* All calls so far were validations of one signed transfer by distinct
\* replicas of one group, and the accumulator was not cleared since.
OneGroupArrivals ==
    /\ event_log.kept
    /\ Calls # <<>>
    /\ \A i \in 1..Len(Calls) :
          /\ Calls[i].validation.replicas = Calls[1].validation.replicas
          /\ Calls[i].validation.signed_transfer = Calls[1].validation.signed_transfer
    /\ \A i \in 1..Len(event_log.events) :
          event_log.events[i].type # "TransferRegistrationSent"

\* the proof of group over the signed transfer st
ProofOf(st, group) ==
    [signed_transfer |-> st, debiting_replicas_sig |-> Signed(group, st),
     replica_key |-> group]

\* the number of the call that returns the first proof for a group: the one
\* that finds threshold validations held, and not the first one
FirstProofCall(group) == IF threshold(group) >= 1 THEN threshold(group) + 1 ELSE 2

\* every validation the accumulator before holds, the accumulator after holds
Keeps(before, after) ==
    \A g \in DOMAIN before : g \in DOMAIN after /\ before[g] \subseteq after[g]

(***************************************************************************)
(* C1: the happy path of one debit succeeds at every step.  With no debit  *)
(* in flight, transfer of an amount within the balance returns Ok; once    *)
(* its TransferInitiated is applied, every validation of that transfer     *)
(* from one group, fed with nothing else in the accumulator, returns Ok,   *)
(* with no proof while fewer than threshold validations are held and with  *)
(* a proof when threshold are held; register of the proof returns Ok and   *)
(* applying it lowers the balance by the amount and leaves                 *)
(* next_debit_version equal to account.next_debit().                       *)
(***************************************************************************)
C1_HappyPath ==
    /\ \A amount \in Amounts :
          NoDebitInFlight /\ amount <= balance(account)
              => transfer(amount, Peer).kind = "Ok"
    /\ \A st \in initiated, g \in Groups :
          AllAccumulated \subseteq ValidationsOf(st, g) =>
              \A v \in ValidationsOf(st, g) \ AllAccumulated : \A r \in receive(v) :
                  /\ r.kind = "Ok"
                  /\ Cardinality(Accumulated(g)) < threshold(g) => ProofIn(r) = <<>>
                  /\ Cardinality(Accumulated(g)) = threshold(g) => ProofIn(r) # <<>>
    /\ \A st \in initiated :
          Cardinality(ValidationsOf(st, replicas) \cap Accumulated(replicas))
                  > threshold(replicas) =>
              LET registered == append(account, st.transfer) IN
              /\ register(Proof(st, replicas, replicas)).kind = "Ok"
              /\ balance(registered) = balance(account) - st.transfer.amount
              /\ next_debit(registered) = next_debit_version

(***************************************************************************)
(* C2: receive accepts exactly the validations of the debit in flight.     *)
(* Before the TransferInitiated of counter n is applied, a correctly       *)
(* signed validation of counter n + 1 returns Err; after it is applied, a  *)
(* correctly signed validation of counter n that was not received yet      *)
(* returns Ok.                                                             *)
(***************************************************************************)
C2_ReceiveInFlight ==
    /\ NoDebitInFlight =>
          \A v \in CorrectValidations :
              CounterOf(v) = next_debit(account) + 1 =>
                  \A r \in receive(v) : r.kind = "Err"
    /\ \A st \in initiated :
          \A v \in CorrectValidations \ AllAccumulated :
              CounterOf(v) = st.transfer.id.counter =>
                  \A r \in receive(v) : r.kind = "Ok"

(***************************************************************************)
(* C3: at most one debit is in flight.  transfer returns Ok, whatever the  *)
(* amount and the recipient, only when no applied TransferInitiated waits  *)
(* for its TransferRegistrationSent and next_debit_version equals          *)
(* account.next_debit().                                                   *)
(***************************************************************************)
C3_OneDebitInFlight ==
    \A amount \in Amounts \cup {0}, to \in AccountIds :
        transfer(amount, to).kind = "Ok" =>
            initiated = {} /\ next_debit_version = next_debit(account)

\* a debit is in flight and the balance would allow another one
C3_Witness ==
    /\ initiated # {}
    /\ \E amount \in Amounts :
          /\ amount <= balance(account)
          /\ transfer(amount, Peer).kind = "Err"

(***************************************************************************)
(* C4: next_debit_version is account.next_debit() or account.next_debit()  *)
(* + 1, and it is the latter exactly when a TransferInitiated has been     *)
(* applied and no TransferRegistrationSent of its dot has been applied     *)
(* since.                                                                  *)
(***************************************************************************)
C4_NextDebitVersion ==
    /\ next_debit_version \in {next_debit(account), next_debit(account) + 1}
    /\ next_debit_version = next_debit(account) + 1 <=> initiated # {}

(***************************************************************************)
(* C5: the balance, credits minus debits, is never negative.               *)
(***************************************************************************)
C5_BalanceNotNegative == balance(account) >= 0

(***************************************************************************)
(* C6: the debits of the account are the debits of the owner with the      *)
(* counters 0, 1, 2, ... in this order.                                    *)
(***************************************************************************)
C6_DenseDebits ==
    \A i \in 1..Len(account.debits) : account.debits[i].id = Dot(Self, i - 1)

\* two debits have been applied
C6_Witness == Len(account.debits) >= 2

(***************************************************************************)
(* C7: quorum liveness.  When the accumulator holds only validations of    *)
(* one signed transfer from one group of threshold t, a further validation *)
(* of that transfer from that group returns no proof while fewer than t    *)
(* are held (calls 1..t) and a proof when t are held (call t + 1); this    *)
(* for every t, 0 included.                                                *)
(***************************************************************************)
C7_QuorumLiveness ==
    \A g \in Groups, v \in CorrectValidations \ AllAccumulated :
        /\ v.replicas = g
        /\ CounterOf(v) = next_debit_version
        /\ AllAccumulated \subseteq ValidationsOf(v.signed_transfer, g)
        /\ \A w \in AllAccumulated :
              w.replica_signature.index # v.replica_signature.index
        => \A r \in receive(v) :
              /\ r.kind = "Ok"
              /\ Cardinality(Accumulated(g)) < threshold(g) => ProofIn(r) = <<>>
              /\ Cardinality(Accumulated(g)) = threshold(g) => ProofIn(r) # <<>>

(***************************************************************************)
(* C8: quorum soundness.  A proof that receive returns carries a signature *)
(* that verifies under the proof's replica key over the proof's signed     *)
(* transfer, which is the signed transfer of the validation received, and  *)
(* its replica key is the group of that validation.                        *)
(***************************************************************************)
C8_QuorumSoundness ==
    \A v \in ValidationInputs : \A r \in receive(v) :
        r.kind = "Ok" /\ ProofIn(r) # <<>> =>
            LET proof == ProofIn(r)[1] IN
            /\ Verifies(proof.replica_key, proof.debiting_replicas_sig,
                        proof.signed_transfer)
            /\ proof.signed_transfer = v.signed_transfer
            /\ proof.replica_key = v.replicas

\* receive returns a proof for one validation, and none for another of the
\* same group because the shares held are not over its transfer
C8_Witness ==
    \E v \in CorrectValidations, w \in CorrectValidations :
        /\ v.replicas = w.replicas
        /\ DOMAIN accumulating_validations # {}
        /\ v.replicas = largest_group
        /\ Cardinality(Accumulated(v.replicas)) >= threshold(v.replicas)
        /\ \E r \in receive(v) : r.kind = "Ok" /\ ProofIn(r) # <<>>
        /\ \E r \in receive(w) : r.kind = "Ok" /\ ProofIn(r) = <<>>

(***************************************************************************)
(* C9: once a group holds a quorum, every further validation of the same   *)
(* transfer from that group that was not received yet returns a proof: a   *)
(* proof is returned whenever the group holds at least threshold           *)
(* validations, not only when it holds exactly threshold.                  *)
(***************************************************************************)
C9_ProofAfterQuorum ==
    \A g \in Groups, v \in CorrectValidations \ AllAccumulated :
        /\ v.replicas = g
        /\ CounterOf(v) = next_debit_version
        /\ Cardinality(Accumulated(g)) > threshold(g)
        /\ Accumulated(g) \subseteq ValidationsOf(v.signed_transfer, g)
        /\ \A w \in Accumulated(g) :
              w.replica_signature.index # v.replica_signature.index
        => \A r \in receive(v) : r.kind = "Ok" /\ ProofIn(r) # <<>>

(***************************************************************************)
(* C10: every validation in the accumulator is a validation of the debit   *)
(* in flight, the one whose TransferInitiated was applied and that is not  *)
(* registered yet.                                                         *)
(***************************************************************************)
C10_AccumulatorInFlight ==
    \A v \in AllAccumulated : v.signed_transfer \in initiated

(***************************************************************************)
(* C11: the accumulator is cleared exactly when a TransferRegistrationSent *)
(* is applied.  After apply of the event register returns the accumulator  *)
(* holds no validation of any group; after apply of an event that          *)
(* transfer, receive or synch returns it holds every validation it held.   *)
(***************************************************************************)
C11_ClearedOnRegistration ==
    /\ \A e \in RegisterEvents :
          applied(self, e).accumulating_validations = NoValidations
    /\ \A e \in TransferEvents \cup ReceiveEvents \cup SynchEvents :
          Keeps(accumulating_validations, applied(self, e).accumulating_validations)

\* the accumulator holds validations and register returns an event, while
\* synch returns one too
C11_Witness ==
    /\ AllAccumulated # {}
    /\ RegisterEvents # {}
    /\ SynchEvents # {}

(***************************************************************************)
(* C12: transfer reports the first precondition that fails, in this order: *)
(* the recipient is the sender; a debit is pending (next_debit_version is  *)
(* not account.next_debit()); the amount exceeds the balance.  Otherwise   *)
(* it returns a TransferInitiated of the transfer with id (owner,          *)
(* account.next_debit()), the recipient and the amount given, signed by    *)
(* the owner; an amount equal to the balance is allowed.                   *)
(***************************************************************************)
C12_TransferCheckOrder ==
    \A amount \in {a \in Amounts \cup {0, balance(account), balance(account) + 1} : a >= 0},
       to \in AccountIds :
        LET r == transfer(amount, to) IN
        IF to = Self
        THEN r = Err("Sender and recipient are the same")
        ELSE IF next_debit_version # next_debit(account)
        THEN r = Err("Current pending debit has not been completed")
        ELSE IF amount > balance(account)
        THEN r = Err("InsufficientBalance")
        ELSE /\ r.kind = "Ok"
             /\ r.event[1].type = "TransferInitiated"
             /\ r.event[1].signed_transfer.transfer
                    = [id |-> Dot(Self, next_debit(account)), to |-> to, amount |-> amount]
             /\ verify_is_our_transfer(r.event[1].signed_transfer)

\* a debit is pending and the amount exceeds the balance: the recipient is
\* tested first, the pending debit second
C12_Witness ==
    /\ initiated # {}
    /\ \E amount \in Amounts :
          /\ amount > balance(account)
          /\ transfer(amount, Self) = Err("Sender and recipient are the same")
          /\ transfer(amount, Peer) = Err("Current pending debit has not been completed")

(***************************************************************************)
(* C13: consecutive debits.  When the TransferRegistrationSent of a        *)
(* transfer whose TransferInitiated was applied is applied, the balance    *)
(* goes down by the amount of the transfer, and then transfer of any       *)
(* amount within the balance returns Ok, for the counter after the one of  *)
(* the debit just registered.                                              *)
(***************************************************************************)
C13_ConsecutiveDebits ==
    [][\A e \in RegisterEvents :
          e.debit_proof.signed_transfer \in initiated /\ apply(e) =>
              LET done == e.debit_proof.signed_transfer.transfer IN
              /\ balance(account)' = balance(account) - done.amount
              /\ \A amount \in Amounts :
                    (amount <= balance(account))' =>
                        /\ (transfer(amount, Peer).kind)' = "Ok"
                        /\ (transfer(amount, Peer).event[1].signed_transfer.transfer.id)'
                               = Dot(Self, done.id.counter + 1)]_vars

\* two debit cycles are completed and nothing is left of the balance
C13_Witness ==
    /\ Len(account.debits) = 2
    /\ next_debit_version = 2
    /\ initiated = {}
    /\ balance(account) = 0

(***************************************************************************)
(* C14: cross-group transfer.  A propagated credit to this actor that is   *)
(* not in the account yet, with a proof that verifies under a replica      *)
(* group the validator accepts (its own or another), makes synch return    *)
(* Ok, and applying the event raises the balance by the amount credited.   *)
(* Applying any TransfersSynched changes the balance by the sum of its     *)
(* credits less the sum of its debits.  Registering an initiated debit of  *)
(* the whole balance leaves a balance of 0.                                *)
(***************************************************************************)
C14_CrossGroupTransfer ==
    /\ \A c \in Counters, amount \in Amounts, g \in Groups :
          LET e == Propagated(Proof(Signs(Peer, c, amount), g, g), g)
              r == synch(<<e>>)
          IN  ~contains(account, EventDot(e)) =>
                /\ r.kind = "Ok"
                /\ r.event[1].credits = <<ReceivedCredit(e)>>
                /\ r.event[1].debits = <<>>
                /\ balance(applied(self, r.event[1]).account)
                       = balance(account) + amount
    /\ \A e \in SynchEvents :
          balance(applied(self, e).account)
              = balance(account)
                  + SumAmounts([i \in 1..Len(e.credits) |->
                                  e.credits[i].debit_proof.signed_transfer.transfer])
                  - SumAmounts([i \in 1..Len(e.debits) |->
                                  e.debits[i].signed_transfer.transfer])
    /\ \A e \in RegisterEvents :
          /\ e.debit_proof.signed_transfer \in initiated
          /\ e.debit_proof.signed_transfer.transfer.amount = balance(account)
          => balance(applied(self, e).account) = 0

\* the actor was credited by a group that is not its own, then debited the
\* whole balance
C14_Witness ==
    /\ event_log.kept
    /\ Len(event_log.events) = 3
    /\ event_log.events[1].type = "TransfersSynched"
    /\ Len(event_log.events[1].credits) = 1
    /\ event_log.events[1].credits[1].debiting_replicas # event_log.replicas
    /\ event_log.events[2].type = "TransferInitiated"
    /\ event_log.events[3].type = "TransferRegistrationSent"
    /\ event_log.events[3].debit_proof.signed_transfer
           = event_log.events[2].signed_transfer
    /\ balance(account) = 0

(***************************************************************************)
(* C15: the commands are pure.  Whatever transfer, receive, register and   *)
(* synch return, the actor changes only by apply: every step that changes  *)
(* the account, next_debit_version, the accumulator or the replicas is     *)
(* the apply, on the actor as it was before the command was called, of an  *)
(* event that a command returned Ok on that actor; a command that returns  *)
(* Err gives no event and so no step.                                      *)
(***************************************************************************)
C15_CommandPurity ==
    [][\E e \in TransferEvents \cup ReceiveEvents \cup RegisterEvents \cup SynchEvents :
          /\ event_log'.events = Append(event_log.events, e)
          /\ self' = applied(self, e)]_vars

\* events were applied, the accumulator holds validations, and of the
\* commands called now some return Err and some Ok
C15_Witness ==
    /\ event_log.kept
    /\ Len(event_log.events) >= 2
    /\ AllAccumulated # {}
    /\ transfer(1, Peer).kind = "Err"
    /\ \E v \in ValidationInputs : \E r \in receive(v) : r.kind = "Err"
    /\ ReceiveEvents # {}
    /\ RegisterEvents # {}

(***************************************************************************)
(* C16: event-sourcing round trip.  Applying the events an actor created   *)
(* by new has applied, in their order, to a fresh actor created by new     *)
(* with the same replicas gives the same account, next_debit_version,      *)
(* accumulator and replicas.                                               *)
(***************************************************************************)
C16_EventSourcingRoundTrip ==
    event_log.kept => replay(new(event_log.replicas), event_log.events) = self

\* the log holds a validation that came with a proof, and the replicas
\* adopted are not the ones the actor was created with
C16_Witness ==
    /\ event_log.kept
    /\ replicas # event_log.replicas
    /\ \E i \in 1..Len(event_log.events) :
          /\ event_log.events[i].type = "TransferValidationReceived"
          /\ event_log.events[i].proof # <<>>
    /\ \E i \in 1..Len(event_log.events) :
          event_log.events[i].type = "TransfersSynched"

(***************************************************************************)
(* C17: synch returns Err exactly when it accepts no credit and no debit,  *)
(* and otherwise Ok with a TransfersSynched of exactly the credits and the *)
(* debits accepted; a batch of events that are all irrelevant, invalid or  *)
(* already applied returns Err.                                            *)
(***************************************************************************)
C17_NothingToSync ==
    \A events \in BatchesOfAllSorts :
        LET r == synch(events)
            credits == validate_credits(events)
            debits == validate_debits(events)
        IN  /\ r.kind \in {"Ok", "Err"}
            /\ r.kind = "Err" <=> credits = <<>> /\ debits = <<>>
            /\ r.kind = "Err" => r = Err("No credits or debits found to sync to actor")
            /\ r.kind = "Ok" =>
                  r.event[1] = [type |-> "TransfersSynched",
                                credits |-> credits, debits |-> debits]
            /\ (\A i \in 1..Len(events) : Useless(events[i])) => r.kind = "Err"

\* the account holds a credit and a debit: synch of these two applied
\* events returns Err, synch of a batch with credits only and of one with
\* debits only return Ok
C17_Witness ==
    /\ account.credits # <<>>
    /\ account.debits # <<>>
    /\ \E e \in ReplicaEventsOfAllSorts, f \in ReplicaEventsOfAllSorts :
          /\ IsPropagated(e) /\ contains(account, EventDot(e))
          /\ IsRegistered(f) /\ contains(account, EventDot(f))
          /\ verify_credit_proof(ReceivedCredit(e)) /\ verify_debit_proof(f.debit_proof)
          /\ synch(<<e, f>>).kind = "Err"
    /\ \E events \in BatchesOfAllSorts :
          /\ synch(events).kind = "Ok"
          /\ synch(events).event[1].debits = <<>>
    /\ \E events \in BatchesOfAllSorts :
          /\ synch(events).kind = "Ok"
          /\ synch(events).event[1].credits = <<>>

(***************************************************************************)
(* C18: the initial state.  An actor created by new has balance 0, no      *)
(* credits, no debits, next_debit_version 0 and an empty accumulator.  An  *)
(* actor created by from_snapshot from an account with one credit of n has *)
(* balance n, that credit as its only one since index 0, and no debits.    *)
(***************************************************************************)
C18_InitialState ==
    Init =>
      /\ \A g \in Groups :
            self = new(g) =>
              /\ balance(account) = 0
              /\ credits_since(account, 0) = <<>>
              /\ debits_since(account, 0) = <<>>
              /\ next_debit_version = 0
              /\ accumulating_validations = NoValidations
      /\ \A g \in Groups, acc \in SnapshotAccounts :
            Len(acc.credits) = 1 /\ acc.debits = <<>> /\ self = from_snapshot(acc, g) =>
              /\ balance(account) = acc.credits[1].amount
              /\ Len(credits_since(account, 0)) = 1
              /\ credits_since(account, 0)[1].amount = acc.credits[1].amount
              /\ debits_since(account, 0) = <<>>

\* the actor as from_snapshot creates it from an account with one credit
C18_Witness ==
    /\ Init
    /\ \E g \in Groups, acc \in SnapshotAccounts :
          /\ Len(acc.credits) = 1
          /\ acc.debits = <<>>
          /\ self = from_snapshot(acc, g)
          /\ balance(account) > 0

(***************************************************************************)
(* C19: the groups accumulate independently and the first to reach quorum  *)
(* wins.  While another group holds validations too, a new validation of   *)
(* the debit from a group that holds at least threshold validations of it  *)
(* returns a proof of that group, however many the other group holds.      *)
(***************************************************************************)
C19_FirstQuorumWins ==
    \A v \in CorrectValidations \ AllAccumulated :
        /\ CounterOf(v) = next_debit_version
        /\ \E h \in Groups \ {v.replicas} : Accumulated(h) # {}
        /\ Cardinality(Accumulated(v.replicas)) >= threshold(v.replicas)
        /\ Accumulated(v.replicas) \subseteq ValidationsOf(v.signed_transfer, v.replicas)
        /\ \A w \in Accumulated(v.replicas) :
              w.replica_signature.index # v.replica_signature.index
        => \A r \in receive(v) :
              /\ r.kind = "Ok"
              /\ ProofIn(r) # <<>>
              /\ ProofIn(r)[1].replica_key = v.replicas

(***************************************************************************)
(* C20: a proof leads to registration.  Right after apply of a             *)
(* TransferValidationReceived that carries a proof, register of that proof *)
(* returns Ok: the proof verifies under the replicas just adopted and its  *)
(* transfer is the next debit of the account.                              *)
(***************************************************************************)
C20_ProvenLeadsToRegistration ==
    [][\A e \in ReceiveEvents :
          e.proof # <<>> /\ apply(e) => (register(e.proof[1]).kind)' = "Ok"]_vars

(***************************************************************************)
(* C21: synchronising debits does not block the actor.  When no debit is   *)
(* in flight and a TransfersSynched with at least one debit is applied,    *)
(* transfer to another account of any amount within the balance then       *)
(* returns Ok, for the counter account.next_debit().                       *)
(***************************************************************************)
C21_SynchDoesNotBlock ==
    [][\A e \in SynchEvents :
          NoDebitInFlight /\ Len(e.debits) > 0 /\ apply(e) =>
              \A amount \in Amounts :
                  (amount <= balance(account))' =>
                      /\ (transfer(amount, Peer).kind)' = "Ok"
                      /\ (transfer(amount, Peer).event[1].signed_transfer.transfer.id)'
                             = Dot(Self, next_debit(account)')]_vars

(***************************************************************************)
(* C22: apply of a TransfersSynched appends the transfers of all its       *)
(* credits, in their order, and then those of all its debits, in their     *)
(* order.  If the event has a debit, next_debit_version becomes            *)
(* account.next_debit() - 1 of the account after, the counter of the last  *)
(* debit applied; if it has none, next_debit_version stays as it was.  The *)
(* accumulator and the replicas stay as they were.                         *)
(***************************************************************************)
C22_SynchedApplied ==
    \A e \in SynchEvents :
        LET after == applied(self, e) IN
        /\ after.account = append_each(account, CreditTransfers(e) \o DebitTransfers(e))
        /\ after.account.id = account.id
        /\ after.account.credits = account.credits \o CreditTransfers(e)
        /\ after.account.debits = account.debits \o DebitTransfers(e)
        /\ Len(e.debits) > 0 =>
              /\ after.next_debit_version = next_debit(after.account) - 1
              /\ after.next_debit_version = e.debits[Len(e.debits)].signed_transfer.transfer.id.counter
        /\ Len(e.debits) = 0 => after.next_debit_version = next_debit_version
        /\ after.accumulating_validations = accumulating_validations
        /\ after.replicas = replicas

\* the accumulator holds validations; synch returns an event with credits
\* and debits, and an event with credits only whose apply leaves
\* next_debit_version away from account.next_debit() - 1
C22_Witness ==
    /\ AllAccumulated # {}
    /\ \E e \in SynchEvents : e.credits # <<>> /\ e.debits # <<>>
    /\ \E e \in SynchEvents :
          /\ e.credits # <<>> /\ e.debits = <<>>
          /\ applied(self, e).next_debit_version # next_debit(applied(self, e).account) - 1

(***************************************************************************)
(* C23: register returns Ok, with a TransferRegistrationSent of the proof  *)
(* given, exactly when the transfer of the proof carries the signature of  *)
(* this actor, the aggregated signature verifies under the replicas the    *)
(* actor trusts (whatever key set the proof names), and the counter of     *)
(* the transfer is account.next_debit().  When a signature fails the       *)
(* result is InvalidSignature, sequential or not; a debit of this actor    *)
(* with both signatures right and another counter gives the non-sequential *)
(* error, and a transfer that does not debit this actor InvalidOperation.  *)
(***************************************************************************)
C23_RegisterConditions ==
    \A p \in ProofInputs :
        LET r == register(p)
            st == p.signed_transfer
            ours == Verifies(Self, st.actor_signature, st.transfer)
            agreed == Verifies(replicas, p.debiting_replicas_sig, st)
            sequential == st.transfer.id.counter = next_debit(account)
        IN  /\ r.kind = "Ok" => ours /\ agreed /\ sequential
            /\ r.kind = "Ok" =>
                  r.event[1] = [type |-> "TransferRegistrationSent", debit_proof |-> p]
            /\ ~(ours /\ agreed) => r = Err("InvalidSignature")
            /\ ours /\ agreed /\ st.transfer.id.actor = Self =>
                  IF sequential THEN r.kind = "Ok" ELSE r = Err("Non-sequential opertaion")
            /\ ours /\ agreed /\ st.transfer.id.actor # Self => r = Err("InvalidOperation")

\* for the next debit of the actor: a proof signed by the trusted replicas
\* that names another key set is registered, one signed by the key set it
\* names, which the actor does not trust, is not; for a debit that is not
\* the next one, the result tells a wrong signature from a right one
C23_Witness ==
    \E g \in Groups \ {replicas}, amount \in Amounts, c \in Counters :
        /\ c # next_debit(account)
        /\ register(Proof(Signs(Self, next_debit(account), amount), replicas, g)).kind = "Ok"
        /\ register(Proof(Signs(Self, next_debit(account), amount), g, g))
               = Err("InvalidSignature")
        /\ register(Proof(Signs(Self, c, amount), g, g)) = Err("InvalidSignature")
        /\ register(Proof(Signs(Self, c, amount), replicas, replicas))
               = Err("Non-sequential opertaion")
        /\ account.debits # <<>>

(***************************************************************************)
(* C24: the debits synch returns.  Of the TransferRegistered events of a   *)
(* batch take those that are first for their dot, debit this actor, have a *)
(* counter not below account.next_debit() and a proof that verifies under  *)
(* the replicas of the actor.  The debits returned are these in the order  *)
(* of their counters, from account.next_debit() up to the first counter    *)
(* that is missing: the longest run without a gap.  What comes after the   *)
(* first gap is dropped, and when the lowest counter left is above         *)
(* account.next_debit() no debit is returned.                              *)
(***************************************************************************)
C24_DensePrefixOfDebits ==
    \A events \in BatchesOf(DebitEventsOfAllSorts) :
        LET surviving == SurvivingDebits(events)
            debits == validate_debits(events)
            r == synch(events)
        IN  /\ Len(debits) = LongestRun(surviving)
            /\ \A k \in 1..Len(debits) :
                  /\ debits[k] \in surviving
                  /\ debits[k].signed_transfer.transfer.id.counter
                         = next_debit(account) + k - 1
            /\ (\A p \in surviving :
                    p.signed_transfer.transfer.id.counter > next_debit(account))
                  => debits = <<>>
            /\ r.kind = "Ok" => r.event[1].debits = debits

\* the account holds a debit; of three valid debits handed over out of
\* order all are returned, of a batch with a gap only the one before it, and
\* of a batch that starts above account.next_debit() none
C24_Witness ==
    LET n == next_debit(account) IN
    /\ n >= 1
    /\ Len(validate_debits(<<RegisteredDebit(n + 2, 1), RegisteredDebit(n, 1),
                             RegisteredDebit(n + 1, 1)>>)) = 3
    /\ validate_debits(<<RegisteredDebit(n + 2, 1), RegisteredDebit(n, 1)>>)
           = <<RegisteredDebit(n, 1).debit_proof>>
    /\ validate_debits(<<RegisteredDebit(n + 2, 1), RegisteredDebit(n + 1, 1)>>) = <<>>
    /\ validate_debits(<<Registered(Proof(Signs(Self, n, 1), NoKey, replicas)),
                         RegisteredDebit(n, 1)>>) = <<>>

(***************************************************************************)
(* C25: the credits synch returns.  They are, in the order of the batch,   *)
(* the TransferPropagated events that are first for their dot, whose       *)
(* debiting replicas the ReplicaValidator accepts, whose proof verifies    *)
(* under the key of those replicas, whose recipient is this actor and      *)
(* whose dot is not in the account.  No credit from a group the validator  *)
(* rejects, to another account, or already applied is returned.            *)
(***************************************************************************)
C25_AcceptedCredits ==
    \A events \in BatchesOf(CreditEventsOfAllSorts) :
        LET accepted == AcceptedCredits(events)
            credits == validate_credits(events)
            r == synch(events)
        IN  /\ Len(credits) = Cardinality(accepted)
            /\ \A k \in 1..Len(credits) :
                  /\ credits[k] = ReceivedCredit(events[Place(accepted, k)])
                  /\ is_valid(credits[k].debiting_replicas)
                  /\ credits[k].debit_proof.signed_transfer.transfer.to = Self
                  /\ ~contains(account, EventDot(credits[k]))
            /\ r.kind = "Ok" => r.event[1].credits = credits

\* the account holds the credit (peer, 0): handed over again, with the
\* credit (peer, 1) after it, only the latter is returned; a credit of a
\* rejected group is not returned and, coming first, shadows the one of its
\* dot from an accepted group; a credit to the peer is not returned
C25_Witness ==
    /\ contains(account, Dot(Peer, 0))
    /\ ~contains(account, Dot(Peer, 1))
    /\ validate_credits(<<PropagatedCredit(0, 2, 1), PropagatedCredit(1, 2, 2)>>)
           = <<ReceivedCredit(PropagatedCredit(1, 2, 2))>>
    /\ validate_credits(<<PropagatedCredit(1, 2, Rogue), PropagatedCredit(1, 2, 2)>>) = <<>>
    /\ validate_credits(<<PropagatedCredit(1, 2, 2), PropagatedCredit(1, 2, Rogue)>>)
           = <<ReceivedCredit(PropagatedCredit(1, 2, 2))>>
    /\ validate_credits(
           <<Propagated(Proof(Signs(Self, next_debit(account), 1), 1, 1), 1)>>) = <<>>

(***************************************************************************)
(* C26: receive never aborts.  For every validation that passes the        *)
(* signature, actor, counter and duplicate tests, when the largest group   *)
(* is the group of the validation and holds at least threshold             *)
(* validations, the shares handed to combine_signatures, keyed by share    *)
(* index, have at least threshold + 1 distinct indices, and receive        *)
(* returns Ok or Err.                                                      *)
(***************************************************************************)
C26_ReceiveNeverAborts ==
    \A v \in CorrectValidations \ AllAccumulated :
        /\ CounterOf(v) = next_debit_version
        /\ DOMAIN accumulating_validations # {}
        /\ largest_group = v.replicas
        /\ Cardinality(Accumulated(v.replicas)) >= threshold(v.replicas)
        => /\ \A m \in sig_shares(Accumulated(v.replicas), v.replica_signature) :
                 Cardinality(DOMAIN m) >= threshold(v.replicas) + 1
           /\ \A r \in receive(v) : r.kind \in {"Ok", "Err"}

(***************************************************************************)
(* C27: corrupt aggregation is not an error.  When the quorum condition    *)
(* holds and the shares combine to a signature that does not verify under  *)
(* the key of the group over the signed transfer received, receive returns *)
(* Ok with no proof; applying that event puts the validation into the      *)
(* accumulator and takes nothing out of it.                                *)
(***************************************************************************)
C27_CorruptAggregation ==
    \A v \in AtQuorum :
        \A m \in sig_shares(Accumulated(v.replicas), v.replica_signature) :
            LET combined == combine_signatures(v.replicas, m)
                r == aggregate(v, v.replicas, m)
            IN  /\ combined.kind = "Ok"
                /\ ~Verifies(v.replicas, combined.sig, v.signed_transfer)
                => /\ r \in receive(v)
                   /\ r.kind = "Ok"
                   /\ r.event[1].validation = v
                   /\ r.event[1].proof = <<>>
                   /\ LET after == applied(self, r.event[1]).accumulating_validations IN
                      /\ v \in after[v.replicas]
                      /\ Keeps(accumulating_validations, after)

\* the group holds its threshold of validations of one transfer and the new
\* validation is of another transfer of the same counter: the shares
\* combine, the combined signature does not verify, and no proof is given
C27_Witness ==
    \E v \in AtQuorum :
        /\ threshold(v.replicas) >= 1
        /\ \A w \in Accumulated(v.replicas) : w.signed_transfer # v.signed_transfer
        /\ \E m \in sig_shares(Accumulated(v.replicas), v.replica_signature) :
              /\ combine_signatures(v.replicas, m).kind = "Ok"
              /\ ~Verifies(v.replicas, combine_signatures(v.replicas, m).sig,
                           v.signed_transfer)
        /\ \A r \in receive(v) : r.kind = "Ok" /\ ProofIn(r) = <<>>

C29_SignaturesFirst ==
    \A v \in ValidationsOfAllSorts :
        LET st == v.signed_transfer
            ours == Verifies(Self, st.actor_signature, st.transfer)
            shared == VerifiesShare(v.replicas, v.replica_signature.index,
                                    v.replica_signature.share, st)
        IN  IF ours /\ shared
            THEN Err("InvalidSignature") \notin receive(v)
            ELSE receive(v) = {Err("InvalidSignature")}

\* the accumulator holds validations and the counter expected is not 0: a
\* validation of counter 0 with a wrong share, one of a transfer of the peer
\* signed by the peer and one of counter 0 under the wrong actor key return
\* InvalidSignature, one of counter 0 with both signatures right is out of
\* order, and one of a transfer of the peer signed by this actor is not for
\* this actor
C29_Witness ==
    LET Made(st, signer, g) ==
            [signed_transfer |-> st,
             replica_signature |-> [index |-> 0, share |-> Share(signer, 0, st)],
             replicas |-> g]
    IN  /\ AllAccumulated # {}
        /\ next_debit_version # 0
        /\ receive(Made(Signs(Self, 0, 1), 2, 1)) = {Err("InvalidSignature")}
        /\ receive(Made(Signs(Peer, 0, 1), 1, 1)) = {Err("InvalidSignature")}
        /\ receive(Made(Forged(Self, 0, 1), 1, 1)) = {Err("InvalidSignature")}
        /\ receive(Made(Signs(Self, 0, 1), 1, 1)) = {Err("Out of order validation")}
        /\ receive(Made(Forged(Peer, 0, 1), 1, 1))
               = {Err("Validation not intended for this actor")}

(***************************************************************************)
(* C30: apply of a TransferValidationReceived puts the validation into the *)
(* accumulator entry of the replicas of the validation, which it creates   *)
(* when there is none, leaves the other entries, the account and           *)
(* next_debit_version as they were, and makes the replicas of the          *)
(* validation the trusted replicas when the event has a proof.  With no    *)
(* proof, and on apply of an event of any other kind, the trusted replicas *)
(* stay as they were.                                                      *)
(***************************************************************************)
C30_ValidationApplied ==
    /\ \A e \in ReceiveEvents :
          LET after == applied(self, e)
              g == e.validation.replicas
          IN  /\ DOMAIN after.accumulating_validations
                     = DOMAIN accumulating_validations \cup {g}
              /\ after.accumulating_validations[g] = Accumulated(g) \cup {e.validation}
              /\ \A h \in DOMAIN accumulating_validations \ {g} :
                    after.accumulating_validations[h] = accumulating_validations[h]
              /\ after.account = account
              /\ after.next_debit_version = next_debit_version
              /\ e.proof # <<>> => after.replicas = g
              /\ e.proof = <<>> => after.replicas = replicas
    /\ \A e \in TransferEvents \cup RegisterEvents \cup SynchEvents :
          applied(self, e).replicas = replicas

\* receive returns an event with a proof of a group that is not the trusted
\* one, and an event without a proof for a group that has no entry in the
\* accumulator yet; register and synch return events too
C30_Witness ==
    /\ \E e \in ReceiveEvents :
          /\ e.proof # <<>>
          /\ e.validation.replicas # replicas
          /\ applied(self, e).replicas # replicas
    /\ \E e \in ReceiveEvents :
          /\ e.proof = <<>>
          /\ e.validation.replicas \notin DOMAIN accumulating_validations
    /\ RegisterEvents # {}
    /\ SynchEvents # {}

(***************************************************************************)
(* C31: synchronisation is idempotent.  When the TransfersSynched that     *)
(* synch returns for a batch is applied, synch of the same batch on the    *)
(* actor after it returns Err: there is nothing left to synchronise.  So   *)
(* no dot occurs twice among the credits and debits of the account.        *)
(***************************************************************************)
C31_SynchIdempotent ==
    [][/\ \A events \in BatchesOf(RepeatedEvents(next_debit(account))) :
             synch(events).kind = "Ok" /\ apply(synch(events).event[1]) =>
                 synch(events)' = Err("No credits or debits found to sync to actor")
       /\ NoDotTwice(account)']_vars

\* the account holds two credits and two debits or more, and synch of
\* events that are all applied returns Err
C31_Witness ==
    /\ Len(account.credits) = 2
    /\ Len(account.debits) >= 2
    /\ NoDotTwice(account)
    /\ synch(<<PropagatedCredit(account.credits[1].id.counter, account.credits[1].amount, 1),
               PropagatedCredit(account.credits[2].id.counter, account.credits[2].amount, 2),
               RegisteredDebit(next_debit(account) - 1, 1)>>).kind = "Err"

(***************************************************************************)
(* C32: within one replica group the order of arrival of the validations   *)
(* does not matter.  When validations of one signed transfer by distinct   *)
(* replicas of one group are fed through receive, each applied before the  *)
(* next, in whatever order, the calls that return a proof are those from   *)
(* one call number on, which depends on the group only; the proof is the   *)
(* signed transfer, the key of the group and the signature of the group    *)
(* over the signed transfer; the accumulator holds exactly the validations *)
(* fed.  The next validation of that transfer by a further replica of the  *)
(* group, whichever it is, has the same outcome.                           *)
(***************************************************************************)
C32_ArrivalOrder ==
    OneGroupArrivals =>
        LET group == Calls[1].validation.replicas
            st == Calls[1].validation.signed_transfer
            fed == {Calls[i].validation : i \in 1..Len(Calls)}
            further == {[signed_transfer |-> st,
                         replica_signature |-> [index |-> i, share |-> Share(group, i, st)],
                         replicas |-> group] : i \in Indices \cup {Cardinality(Indices)}} \ fed
        IN  /\ \A i \in 1..Len(Calls) :
                  Calls[i].proof = IF i >= FirstProofCall(group)
                                   THEN <<ProofOf(st, group)>> ELSE <<>>
            /\ Cardinality(fed) = Len(Calls)
            /\ accumulating_validations = [g \in {group} |-> fed]
            /\ CounterOf(Calls[1].validation) = next_debit_version =>
                  \A v \in further :
                      receive(v) = {Ok(ValidationReceived(v,
                                        IF Len(Calls) + 1 >= FirstProofCall(group)
                                        THEN <<ProofOf(st, group)>> ELSE <<>>))}

\* two validations of a group of threshold 1 arrived, the one of replica 1
\* before the one of replica 0, and the second call returned the proof
C32_Witness ==
    /\ OneGroupArrivals
    /\ Len(Calls) = 2
    /\ threshold(Calls[1].validation.replicas) = 1
    /\ Calls[1].validation.replica_signature.index = 1
    /\ Calls[2].validation.replica_signature.index = 0
    /\ Calls[1].proof = <<>>
    /\ Calls[2].proof # <<>>

====
